---- MODULE Spec2Model ----
(***************************************************************************)
(* The custom training loop of eo-flow: BaseModelCustomTraining.fit, the   *)
(* loss reduction of train_step, and the reduce-on-plateau controller fit  *)
(* drives.  Losses and metrics are small integers; +inf and -inf, the      *)
(* sentinels fit puts at the head of its lists, are PosInf and NegInf.     *)
(* Learning rates are integers in units of 1e-6.                           *)
(***************************************************************************)
EXTENDS Integers, Sequences, FiniteSets, TLC

VARIABLES
    args,               \* the arguments of the fit call
    config,             \* self.config
    pc,                 \* position of fit
    epoch,              \* loop variable of fit, -1 before the first iteration
    train_loss,         \* fit's lists, each headed by its sentinel
    val_loss,
    val_acc,
    wait,
    n_forget,
    x_train_,           \* the epoch's training data: shuffled? augmented?
    train_ds,           \* <<>> or <<the data batched for the epoch>>
    loss_epoch,
    val_loss_epoch,
    val_acc_result,
    loss_metric,        \* self.loss_metric: the running mean of the losses
    metric,             \* self.metric
    weights,            \* the parameters, named by the training passes applied
    trainable,          \* trainable flag of the layers below the output block
    learning_rate,      \* self.optimizer.learning_rate
    reduce_rl_plateau,  \* state of the CustomReduceLRoP fit creates
    files,              \* model_directory: best_model, last_model, history.pickle
    writes,             \* names of the files written, in order
    steps,              \* what the current epoch has done so far, in order
    last_step,          \* what the last train_step call received
    calls,              \* the on_epoch_end calls made: the epoch and value handed
    run,                \* the number of the fit call, the first call's start and end
    tin,                \* a train_step batch: its per-sample losses and settings
    tout,               \* <<>> or <<the losses train_step averages>>
    tpc,
    xin,                \* an augmentation call: the batch, the settings, the draws
    xout,               \* what the call works on and returns
    apc,
    prep,               \* a prepare call: its arguments, its position, its result
    heads               \* the losses of the two outputs on the three datasets

vars == <<args, config, pc, epoch, train_loss, val_loss, val_acc, wait, n_forget,
          x_train_, train_ds, loss_epoch, val_loss_epoch, val_acc_result,
          loss_metric, metric, weights, trainable, learning_rate,
          reduce_rl_plateau, files, writes, steps, last_step, calls, run,
          tin, tout, tpc, xin, xout, apc, prep, heads>>

fitVars == <<args, config, pc, epoch, train_loss, val_loss, val_acc, wait, n_forget,
             x_train_, train_ds, loss_epoch, val_loss_epoch, val_acc_result,
             loss_metric, metric, weights, trainable, learning_rate,
             reduce_rl_plateau, files, writes, steps, last_step, calls, run,
             heads>>

stepVars == <<tin, tout, tpc>>

augVars == <<xin, xout, apc>>

prepVars == <<prep>>

otherVars == <<stepVars, augVars, prepVars, run, heads>>

(***************************************************************************)
(* Bounds of the model.                                                    *)
(***************************************************************************)
MaxEpochs == 3
MaxSaveSteps == 2
MaxPatience == 2
MaxForget == 1
MaxValLoss == 3
MaxMetric == 3
MaxN == 3
MaxCost == 3
MaxBranches == 2
MaxCooldown == 2
MaxSamples == 2
MaxT == 3
MaxShift == 3
MaxNoise == 2
MaxLabelNoise == 3
MaxMetrics == 2
MaxLambda == 2

(***************************************************************************)
(* Values of the program.                                                  *)
(***************************************************************************)
PosInf == 1000
NegInf == 0 - PosInf
NaN == PosInf + 1
InitLR == 1000
FactorNum == 1
FactorDen == 2
PatienceDiv == 4

ValLossVals == 1..MaxValLoss
MetricVals == 1..MaxMetric
TrainLossVals == {1, 2}

\* metric values of a pass that went wrong: NaN and the two infinities
NonFiniteVals == {NaN, PosInf, NegInf}

\* calls of the controller made in one run
MaxCalls == MaxEpochs + 1

RECURSIVE SeqSum(_)
SeqSum(s) == IF s = <<>> THEN 0 ELSE Head(s) + SeqSum(Tail(s))

SeqMin(s) == CHOOSE x \in {s[i] : i \in 1..Len(s)} : \A j \in 1..Len(s) : x <= s[j]
SeqMax(s) == CHOOSE x \in {s[i] : i \in 1..Len(s)} : \A j \in 1..Len(s) : x >= s[j]

\* a < b of two floats: false when either is NaN
Less(a, b) == a # NaN /\ b # NaN /\ a < b

\* the entries of a list that are not NaN
RECURSIVE DropNaN(_)
DropNaN(s) ==
    IF s = <<>> THEN <<>>
    ELSE IF Head(s) = NaN THEN DropNaN(Tail(s))
    ELSE <<Head(s)>> \o DropNaN(Tail(s))

\* np.nanmin or np.nanmax: the NaN entries left out
ApplyIgnoringNaN(function, s) ==
    IF function = "min" THEN SeqMin(DropNaN(s)) ELSE SeqMax(DropNaN(s))

\* function(val_loss): np.min or np.max over the list, NaN when an entry is NaN
Apply(function, s) ==
    IF \E i \in 1..Len(s) : s[i] = NaN THEN NaN
    ELSE IF function = "min" THEN SeqMin(s) ELSE SeqMax(s)

\* [np.inf] if function == np.min else [-np.inf]
Sentinel(function) == IF function = "min" THEN <<PosInf>> ELSE <<NegInf>>

(***************************************************************************)
(* A Keras Mean metric: update_state, result, reset_states.                *)
(***************************************************************************)
Empty == [total |-> 0, count |-> 0]
UpdateState(m, v) == [total |-> m.total + v, count |-> m.count + 1]
Result(m) == IF m.count = 0 THEN 0 ELSE m.total \div m.count

(***************************************************************************)
(* CustomReduceLRoP, the reduce-on-plateau controller (eoflow.models.      *)
(* callbacks).  States MONITORING and COOLDOWN; improvement is a decrease  *)
(* of the monitored value below the best seen by more than MinDelta.       *)
(***************************************************************************)
Cooldown == 0
MinDelta == 0

\* a value that is neither NaN nor infinite
IsFinite(v) == NegInf < v /\ v < PosInf

\* the controller as constructed with a patience and a cooldown
Constructed(p, cd) ==
    [patience |-> p, cooldown |-> cd, best |-> PosInf, wait |-> 0,
     cooldown_counter |-> 0]

CustomReduceLRoP(p) == Constructed(p, Cooldown)

InCooldown(c) == c.cooldown_counter > 0

\* improvement as the bare comparison
ImprovesUnguarded(c, current) == current < c.best - MinDelta

\* a non-finite value is never an improvement
Improves(c, current) == IsFinite(current) /\ current < c.best - MinDelta

\* best-seen after a value has been recorded
Recording(c, current) ==
    IF Improves(c, current) THEN [c EXCEPT !.best = current, !.wait = 0] ELSE c

\* the learning rate after a reduction by factor
Reduced(lr) == (lr * FactorNum) \div FactorDen

\* on_epoch_end counting the call that ends the cooldown as a monitored one
OnEpochEndLeavingEarly(c, lr, ep, current) ==
    LET c1 == IF InCooldown(c)
              THEN [c EXCEPT !.cooldown_counter = @ - 1, !.wait = 0]
              ELSE c
    IN  IF Improves(c1, current)
        THEN [ctrl |-> Recording(c1, current), lr |-> lr]
        ELSE IF InCooldown(c1)
        THEN [ctrl |-> c1, lr |-> lr]
        ELSE IF c1.wait + 1 >= c1.patience
        THEN [ctrl |-> [c1 EXCEPT !.wait = 0, !.cooldown_counter = c1.cooldown],
              lr |-> Reduced(lr)]
        ELSE [ctrl |-> [c1 EXCEPT !.wait = @ + 1], lr |-> lr]

\* on_epoch_end(epoch, current): the controller and the learning rate after it.
\* COOLDOWN: the call is one of the cooldown epochs, the value is recorded and
\* nothing is reduced.  MONITORING: an improvement resets the counter, and the
\* counter reaching patience reduces the rate and enters COOLDOWN.
OnEpochEnd(c, lr, ep, current) ==
    IF InCooldown(c)
    THEN [ctrl |-> Recording([c EXCEPT !.cooldown_counter = @ - 1, !.wait = 0],
                             current),
          lr |-> lr]
    ELSE IF Improves(c, current)
    THEN [ctrl |-> Recording(c, current), lr |-> lr]
    ELSE IF c.wait + 1 >= c.patience
    THEN [ctrl |-> [c EXCEPT !.wait = 0, !.cooldown_counter = c.cooldown],
          lr |-> Reduced(lr)]
    ELSE [ctrl |-> [c EXCEPT !.wait = @ + 1], lr |-> lr]

\* fit's patience handed to the controller undivided
ControllerPatienceWhole(patience) == patience

\* _reduce_lr_on_plateau(patience=patience//4, factor=0.5)
ControllerPatience(patience) == patience \div PatienceDiv

(***************************************************************************)
(* train_step: the losses of a batch that are averaged for the backward    *)
(* pass (lines 78-82).  b.cost: the per-sample losses; mb: multibranch.    *)
(***************************************************************************)
RECURSIVE Insert(_, _)
Insert(x, s) ==
    IF s = <<>> THEN <<x>>
    ELSE IF x >= Head(s) THEN <<x>> \o s
    ELSE <<Head(s)>> \o Insert(x, Tail(s))

\* tf.sort(cost, direction='DESCENDING')
RECURSIVE SortDescending(_)
SortDescending(s) ==
    IF s = <<>> THEN <<>> ELSE Insert(Head(s), SortDescending(Tail(s)))

\* cost[n:]
Slice(s, n) == IF n >= Len(s) THEN <<>> ELSE SubSeq(s, n + 1, Len(s))

\* tf.shape(x_batch_train)[0]: the samples of the batch, or, once line 56 has
\* made x_batch_train the list of its branches, the length of that list
Shape0(b, mb) == IF mb THEN b.n_branches ELSE Len(b.cost)

\* line 78: n_forget and tf.greater(tf.shape(x_batch_train)[0], size_batch - 1)
ForgetApplies(b, mb) == b.n_forget # 0 /\ Shape0(b, mb) > b.size_batch - 1

\* lines 78-80: the losses left for tf.reduce_mean
Kept(b, mb) ==
    IF ForgetApplies(b, mb) THEN Slice(SortDescending(b.cost), b.n_forget)
    ELSE b.cost

\* line 82: cost = tf.reduce_mean(cost), as sum and count
ReduceMean(s) == [total |-> SeqSum(s), count |-> Len(s)]

\* lines 78-82 on one batch
TrainStepCost ==
    /\ tpc = "idle"
    /\ tout' = <<Kept(tin, config.multibranch)>>
    /\ tpc' = "done"
    /\ UNCHANGED <<fitVars, prepVars, augVars, tin>>

(***************************************************************************)
(* Data augmentation (eoflow.models.data_augmentation).  A batch is a       *)
(* sequence of samples, a sample a sequence over time of the channels'      *)
(* values: x[i][t][c].  Probabilities are counted in quarters: a draw of    *)
(* random.random() is one of 0, 1/4, 1/2, 3/4.                              *)
(***************************************************************************)
ProbVals == 0..3
ProbaVals == {0, 2, 4}
ChannelCounts == {1, 2}

\* no augmentation call made, and nothing computed by one
NoAugmentation ==
    [obj |-> "x_", x |-> <<>>, given |-> <<>>, value |-> 0, proba |-> 0]

NoOutput ==
    [obj |-> "x", x |-> <<>>, shift_list |-> <<>>, mask |-> <<>>,
     draws |-> <<>>, perturbed |-> {}]

\* the arguments of a call: the caller's array, as it is and as it was given
Given(x, value, proba) ==
    [NoAugmentation EXCEPT !.x = x, !.given = x, !.value = value,
                           !.proba = proba]

\* x = x_: the function working on the caller's array
Aliased(obj) == obj

\* lines 5, 33, 51: x_.copy(), an array of its own
Copied(obj) == "x"

\* the caller's array after a write to the function's array: written as well
\* when the two are one object
WriteThrough(contents) ==
    IF xout.obj = xin.obj THEN [xin EXCEPT !.x = contents] ELSE xin

\* a batch of shape (n, T, C) whose values are all different
Batch3(n, T, C) ==
    [i \in 1..n |-> [t \in 1..T |-> [c \in 1..C |-> 100 * i + 10 * t + c]]]

Shape(x) == <<Len(x), Len(x[1]), Len(x[1][1])>>

\* a shift that drops what leaves the axis and repeats the edge
RollClipped(a, s) ==
    [t \in 1..Len(a) |->
        a[IF t - s < 1 THEN 1 ELSE IF t - s > Len(a) THEN Len(a) ELSE t - s]]

\* line 8: np.roll(x, rand_unif) of a one-dimensional array
Roll(a, s) == [t \in 1..Len(a) |-> a[((t - 1 - s) % Len(a)) + 1]]

\* lines 19, 21: np.apply_along_axis(_shift, 0, x[i,], rand_unif), every
\* channel's series shifted along the time axis
ApplyAlongAxis0(sample, s) ==
    LET T == Len(sample)
        C == Len(sample[1])
        column(c) == [t \in 1..T |-> sample[t][c]]
    IN  [t \in 1..T |-> [c \in 1..C |-> Roll(column(c), s)[t]]]

\* a draw equal to proba selects as well
SelectedOrEqual(prob, proba) == prob <= proba

\* lines 14, 39: if prob < proba
Selected(prob, proba) == prob < proba

\* lines 16-17, 40 and 42: prob /= proba; if prob < 0.5
Negative(prob, proba) == 2 * prob < proba

\* line 4 with line 5 and line 10: x = x_.copy(); shift_list = []
Timeshift(x, value, proba) ==
    /\ apc = "idle"
    /\ xin' = Given(x, value, proba)
    /\ xout' = [NoOutput EXCEPT !.obj = Copied("x_"), !.x = x]
    /\ apc' = "timeshift"
    /\ UNCHANGED <<fitVars, prepVars, stepVars>>

\* lines 12-24, one pass of the loop: prob the draw of random.random(), r the
\* draw of np.random.randint(value) + 1
ShiftSample(prob, r) ==
    /\ apc = "timeshift"
    /\ Len(xout.shift_list) < Len(xin.x)
    /\ r <= xin.value
    /\ LET i == Len(xout.shift_list) + 1
           rand_unif == IF Negative(prob, xin.proba) THEN 0 - r ELSE r
       IN  IF Selected(prob, xin.proba)
           THEN xout' = [xout EXCEPT
                            !.x[i] = ApplyAlongAxis0(@, rand_unif),
                            !.shift_list = Append(@, rand_unif),
                            !.draws = Append(@, prob)]
           ELSE xout' = [xout EXCEPT !.shift_list = Append(@, 0),
                                     !.draws = Append(@, prob)]
    /\ xin' = WriteThrough(xout'.x)
    /\ UNCHANGED <<fitVars, prepVars, stepVars, apc>>

\* line 26: return x, shift_list
TimeshiftReturn ==
    /\ apc = "timeshift"
    /\ Len(xout.shift_list) = Len(xin.x)
    /\ apc' = "shifted"
    /\ UNCHANGED <<fitVars, prepVars, stepVars, xin, xout>>

\* every sample of the returned batch shifted by the negated entry of the list
ShiftBack ==
    /\ apc = "shifted"
    /\ xout' = [xout EXCEPT !.x = [i \in 1..Len(xout.x) |->
                    ApplyAlongAxis0(xout.x[i], 0 - xout.shift_list[i])]]
    /\ apc' = "restored"
    /\ xin' = WriteThrough(xout'.x)
    /\ UNCHANGED <<fitVars, prepVars, stepVars>>

\* the shapes of the batches feature_noise is run on
NoiseShapes == {<<1, 1, 1>>, <<1, 2, 2>>, <<2, 1, 2>>, <<2, 2, 1>>}

NoiseVals == (0 - MaxNoise)..MaxNoise

\* between lo and hi, hi excluded; lo itself when the two are equal
Uniform(lo, hi) == IF lo = hi THEN {lo} ELSE lo..(hi - 1)

\* both directions for every channel
OffsetsEitherSide(prob, proba, value, C) ==
    [1..C -> Uniform(0 - value, value)]

\* lines 42-45: np.random.uniform(low=-value, high=0, size=C) when
\* prob / proba < 0.5, np.random.uniform(low=0, high=value, size=C) otherwise
Offsets(prob, proba, value, C) ==
    IF Negative(prob, proba)
    THEN [1..C -> Uniform(0 - value, 0)]
    ELSE [1..C -> Uniform(0, value)]

\* lines 31-34: ts_masking = x_batch.copy(); mask = np.zeros((n, T))
FeatureNoise(x, value, proba) ==
    /\ apc = "idle"
    /\ xin' = Given(x, value, proba)
    /\ xout' = [NoOutput EXCEPT
                    !.obj = Copied("x_"),
                    !.x = x,
                    !.mask = [i \in 1..Len(x) |-> [j \in 1..Len(x[1]) |-> 0]]]
    /\ apc' = "feature_noise"
    /\ UNCHANGED <<fitVars, prepVars, stepVars>>

\* lines 36-45, one pass of the inner loop: prob the draw of random.random(),
\* off the draw of np.random.uniform, one offset per channel
NoiseCell(prob, off) ==
    /\ apc = "feature_noise"
    /\ Len(xout.draws) < Len(xin.x) * Len(xin.x[1])
    /\ LET T == Len(xin.x[1])
           C == Len(xin.x[1][1])
           i == (Len(xout.draws) \div T) + 1
           j == (Len(xout.draws) % T) + 1
       IN  IF Selected(prob, xin.proba)
           THEN /\ off \in Offsets(prob, xin.proba, xin.value, C)
                /\ xout' = [xout EXCEPT
                                !.mask[i][j] = 1,
                                !.x[i][j] = [c \in 1..C |-> @[c] + off[c]],
                                !.perturbed = @ \cup {<<i, j>>},
                                !.draws = Append(@, prob)]
           ELSE /\ off = [c \in 1..C |-> 0]
                /\ xout' = [xout EXCEPT !.draws = Append(@, prob)]
    /\ xin' = WriteThrough(xout'.x)
    /\ UNCHANGED <<fitVars, prepVars, stepVars, apc>>

\* line 47: return ts_masking, mask
FeatureNoiseReturn ==
    /\ apc = "feature_noise"
    /\ Len(xout.draws) = Len(xin.x) * Len(xin.x[1])
    /\ apc' = "noised"
    /\ UNCHANGED <<fitVars, prepVars, stepVars, xin, xout>>

\* Labels are counted in quarters as well: One is the label 1.0.
One == 4
LabelVals == (0 - 2)..(One + 2)
LabelCounts == {1, 2}
StdevVals == {0, 1}

\* np.random.normal(0, stdev, 1): exactly 0 when stdev is 0
Normal(stdev) ==
    IF stdev = 0 THEN {0} ELSE (0 - MaxLabelNoise)..MaxLabelNoise

\* the label clamped from above only
ClampAbove(v) == IF One < v THEN One ELSE v

\* lines 59-60: y[i,:] = max(y[i,:], 0); y[i,:] = min(y[i,:], 1)
Clamp(v) ==
    LET lo == IF 0 > v THEN 0 ELSE v
    IN  IF One < lo THEN One ELSE lo

\* lines 50-52: y = y_.copy(); y = y.reshape(y.shape[0], 1)
NoisyLabel(y, stdev, proba) ==
    /\ apc = "idle"
    /\ xin' = Given(y, stdev, proba)
    /\ xout' = [NoOutput EXCEPT !.obj = Copied("x_"),
                                !.x = [i \in 1..Len(y) |-> <<y[i]>>]]
    /\ apc' = "noisy_label"
    /\ UNCHANGED <<fitVars, prepVars, stepVars>>

\* lines 54-60, one pass of the loop: prob the draw of random.random(),
\* noise the draw of np.random.normal
LabelSample(prob, noise) ==
    /\ apc = "noisy_label"
    /\ Len(xout.draws) < Len(xin.x)
    /\ LET i == Len(xout.draws) + 1
       IN  IF Selected(prob, xin.proba)
           THEN /\ noise \in Normal(xin.value)
                /\ xout' = [xout EXCEPT !.x[i] = <<Clamp(@[1] + noise)>>,
                                        !.perturbed = @ \cup {i},
                                        !.draws = Append(@, prob)]
           ELSE /\ noise = 0
                /\ xout' = [xout EXCEPT !.x[i] = <<Clamp(@[1])>>,
                                        !.draws = Append(@, prob)]
    /\ xin' = WriteThrough([i \in 1..Len(xin.x) |-> xout'.x[i][1]])
    /\ UNCHANGED <<fitVars, prepVars, stepVars, apc>>

\* line 62: return y
NoisyLabelReturn ==
    /\ apc = "noisy_label"
    /\ Len(xout.draws) = Len(xin.x)
    /\ apc' = "labelled"
    /\ UNCHANGED <<fitVars, prepVars, stepVars, xin, xout>>

(***************************************************************************)
(* BaseRegressionModel.prepare (eoflow.models.regression_task).  A loss or  *)
(* metric object is named by the class that makes it; "None" is None.       *)
(***************************************************************************)
None == "None"

\* lines 19-23
regression_losses ==
    [mse |-> "losses.MeanSquaredError", huber |-> "losses.Huber",
     mae |-> "losses.MeanAbsoluteError"]

\* lines 26-30
regression_metrics ==
    [mse |-> "metrics.MeanSquaredError",
     mape |-> "metrics.MeanAbsolutePercentageError",
     mae |-> "metrics.MeanAbsoluteError"]

\* lines 40 and 42: the configuration's loss and metrics, here the defaults
ConfigLoss == "mse"
ConfigMetrics == <<"mse">>

\* what a caller may pass: None, a key, or something that is no key
LossArgs == {None} \cup DOMAIN regression_losses \cup {"mape", "rmse"}
MetricArgs ==
    UNION {[1..n -> DOMAIN regression_metrics \cup {"rmse"}] : n \in 0..MaxMetrics}

NoPrepare ==
    [pc |-> "idle", given |-> [loss |-> None, metrics |-> <<>>, none |-> TRUE],
     loss |-> None, metrics |-> <<>>, reported_metrics |-> <<>>, error |-> None]

\* d.get(k, d['mse']): an unknown key answered with the default
LookupOrDefault(d, k) ==
    [ok |-> TRUE, value |-> IF k \in DOMAIN d THEN d[k] ELSE d["mse"]]

\* d[k]: the value, or KeyError
Lookup(d, k) ==
    IF k \in DOMAIN d THEN [ok |-> TRUE, value |-> d[k]]
    ELSE [ok |-> FALSE, value |-> "KeyError"]

\* a metric that compile or training can use: an object, not an unknown name
Usable(m) == \E k \in DOMAIN regression_metrics : m = regression_metrics[k]

\* line 46: prepare(optimizer, loss, metrics); none: metrics is None
Prepare(loss, metrics, none) ==
    /\ prep.pc = "idle"
    /\ prep' = [NoPrepare EXCEPT
                    !.pc = "defaults",
                    !.given = [loss |-> loss, metrics |-> metrics, none |-> none],
                    !.loss = loss,
                    !.metrics = metrics]
    /\ UNCHANGED <<fitVars, stepVars, augVars>>

\* lines 54-62: the defaults read from the configuration
ReadDefaults ==
    /\ prep.pc = "defaults"
    /\ prep' = [prep EXCEPT
                    !.pc = "loss",
                    !.loss = IF @ = None THEN ConfigLoss ELSE @,
                    !.metrics = IF prep.given.none THEN ConfigMetrics ELSE @]
    /\ UNCHANGED <<fitVars, stepVars, augVars>>

\* line 64: loss = regression_losses[loss](**kwargs)
LookupLoss ==
    /\ prep.pc = "loss"
    /\ LET r == Lookup(regression_losses, prep.loss)
       IN  prep' = IF r.ok
                   THEN [prep EXCEPT !.pc = "metrics", !.loss = r.value]
                   ELSE [prep EXCEPT !.pc = "raised", !.error = r.value]
    /\ UNCHANGED <<fitVars, stepVars, augVars>>

\* lines 67-75, one pass of the loop: a key is replaced by its metric, anything
\* else is appended as it is
MetricLoop ==
    /\ prep.pc = "metrics"
    /\ Len(prep.reported_metrics) < Len(prep.metrics)
    /\ LET m == prep.metrics[Len(prep.reported_metrics) + 1]
       IN  prep' = [prep EXCEPT !.reported_metrics =
                        Append(@, IF m \in DOMAIN regression_metrics
                                  THEN regression_metrics[m]
                                  ELSE m)]
    /\ UNCHANGED <<fitVars, stepVars, augVars>>

\* line 77: self.compile(...).  compile is Keras's: whether it resolves the
\* metrics at once (eager) or at the first batch depends on the version.
Compile(eager) ==
    /\ prep.pc = "metrics"
    /\ Len(prep.reported_metrics) = Len(prep.metrics)
    /\ prep' = IF eager /\ \E i \in DOMAIN prep.reported_metrics :
                                ~Usable(prep.reported_metrics[i])
               THEN [prep EXCEPT !.pc = "raised", !.error = "ValueError"]
               ELSE [prep EXCEPT !.pc = "compiled"]
    /\ UNCHANGED <<fitVars, stepVars, augVars>>

\* the first batch of the first epoch: the metrics are needed
Train ==
    /\ prep.pc = "compiled"
    /\ prep' = IF \E i \in DOMAIN prep.reported_metrics :
                        ~Usable(prep.reported_metrics[i])
               THEN [prep EXCEPT !.pc = "raised_in_epoch", !.error = "ValueError"]
               ELSE [prep EXCEPT !.pc = "training"]
    /\ UNCHANGED <<fitVars, stepVars, augVars>>

(***************************************************************************)
(* fit                                                                     *)
(***************************************************************************)
RawData == [shuffled |-> FALSE, augmented |-> FALSE]

NoStep == [epoch |-> -1, n_forget |-> 0, data |-> RawData, trainable |-> TRUE,
           weights |-> 0]

NoFiles == [best_model |-> <<>>, last_model |-> <<>>, history |-> <<>>]

\* n_forget kept on the model, and left as the last call left it
FitBeginKeepingForget ==
    /\ pc = "idle"
    /\ train_loss' = Sentinel(args.function)
    /\ val_loss' = Sentinel(args.function)
    /\ val_acc' = Sentinel(args.function)
    /\ reduce_rl_plateau' = CustomReduceLRoP(ControllerPatience(args.patience))
    /\ wait' = 0
    /\ pc' = "for"
    /\ UNCHANGED <<otherVars, calls,
                   args, config, epoch, n_forget, x_train_, train_ds, loss_epoch,
                   val_loss_epoch, val_acc_result, loss_metric, metric, weights,
                   trainable, learning_rate, files, writes, steps, last_step>>

\* lines 156-173: the lists, the controller, wait and n_forget
FitBegin ==
    /\ pc = "idle"
    /\ train_loss' = Sentinel(args.function)
    /\ val_loss' = Sentinel(args.function)
    /\ val_acc' = Sentinel(args.function)
    /\ reduce_rl_plateau' = CustomReduceLRoP(ControllerPatience(args.patience))
    /\ wait' = 0
    /\ n_forget' = 0
    /\ pc' = "for"
    /\ UNCHANGED <<otherVars, calls,
                   args, config, epoch, x_train_, train_ds, loss_epoch,
                   val_loss_epoch, val_acc_result, loss_metric, metric, weights,
                   trainable, learning_rate, files, writes, steps, last_step>>

\* line 175: the last value of range(num_epochs + 1)
LastEpoch(num_epochs) == num_epochs

\* line 175: for epoch in range(num_epochs + 1)
ForEpoch ==
    /\ pc = "for"
    /\ IF epoch + 1 <= LastEpoch(args.num_epochs)
       THEN /\ epoch' = epoch + 1
            /\ steps' = <<>>
            /\ pc' = "shuffle"
       ELSE /\ pc' = "save_last"
            /\ UNCHANGED <<epoch, steps>>
    /\ UNCHANGED <<otherVars, calls,
                   args, config, train_loss, val_loss, val_acc, wait, n_forget,
                   x_train_, train_ds, loss_epoch, val_loss_epoch, val_acc_result,
                   loss_metric, metric, weights, trainable, learning_rate,
                   reduce_rl_plateau, files, writes, last_step>>

\* line 176: x_train_, y_train_ = shuffle(x_train, y_train)
Shuffle ==
    /\ pc = "shuffle"
    /\ x_train_' = [RawData EXCEPT !.shuffled = TRUE]
    /\ steps' = Append(steps, "shuffle")
    /\ pc' = "gate"
    /\ UNCHANGED <<otherVars, calls,
                   args, config, epoch, train_loss, val_loss, val_acc, wait,
                   n_forget, train_ds, loss_epoch, val_loss_epoch, val_acc_result,
                   loss_metric, metric, weights, trainable, learning_rate,
                   reduce_rl_plateau, files, writes, last_step>>

\* the gate opening one epoch late: epoch > patience
GateOpenLate(patience, ep) == patience # 0 /\ ep > patience

GateOpenAtZero(patience, ep) == ep >= patience

\* line 177: if patience and epoch >= patience
GateOpen(patience, ep) == patience # 0 /\ ep >= patience

AugmentationOnAnyOption(a) ==
    a.sdev_label # 0 \/ a.fillgaps # 0 \/ a.shift_step # 0 \/ a.feat_noise # 0

\* line 183: if sdev_label or fillgaps or shift_step
AugmentationOn(a) == a.sdev_label # 0 \/ a.fillgaps # 0 \/ a.shift_step # 0

\* lines 177-184: unfreeze, set the forget count, augment
PatienceGate ==
    /\ pc = "gate"
    /\ LET open == GateOpen(args.patience, epoch)
           aug == open /\ AugmentationOn(args)
       IN  /\ trainable' = IF open /\ config.finetuning THEN TRUE ELSE trainable
           /\ n_forget' = IF open /\ args.forget # 0 THEN args.forget ELSE n_forget
           /\ x_train_' = IF aug THEN [x_train_ EXCEPT !.augmented = TRUE]
                          ELSE x_train_
           /\ steps' = IF aug THEN Append(steps, "augment") ELSE steps
    /\ pc' = "batch"
    /\ UNCHANGED <<otherVars, calls,
                   args, config, epoch, train_loss, val_loss, val_acc, wait,
                   train_ds, loss_epoch, val_loss_epoch, val_acc_result,
                   loss_metric, metric, weights, learning_rate,
                   reduce_rl_plateau, files, writes, last_step>>

\* line 186: train_ds = Dataset.from_tensor_slices((x_train_, y_train_)).batch(...)
Batch ==
    /\ pc = "batch"
    /\ train_ds' = <<x_train_>>
    /\ steps' = Append(steps, "batch")
    /\ pc' = "train_step"
    /\ UNCHANGED <<otherVars, calls,
                   args, config, epoch, train_loss, val_loss, val_acc, wait,
                   n_forget, x_train_, loss_epoch, val_loss_epoch, val_acc_result,
                   loss_metric, metric, weights, trainable, learning_rate,
                   reduce_rl_plateau, files, writes, last_step>>

\* line 188: self.train_step(train_ds, n_forget, batch_size, lambda_); the pass
\* updates the parameters and the loss accumulator, v its mean batch cost
TrainStep(v) ==
    /\ pc = "train_step"
    /\ last_step' = [epoch |-> epoch, n_forget |-> n_forget, data |-> train_ds[1],
                     trainable |-> trainable, weights |-> weights]
    /\ weights' = weights + 1
    /\ loss_metric' = UpdateState(loss_metric, v)
    /\ steps' = Append(steps, "train_step")
    /\ pc' = "read_loss"
    /\ UNCHANGED <<otherVars, calls,
                   args, config, epoch, train_loss, val_loss, val_acc, wait,
                   n_forget, x_train_, train_ds, loss_epoch, val_loss_epoch,
                   val_acc_result, metric, trainable, learning_rate,
                   reduce_rl_plateau, files, writes>>

\* the accumulator reset before it is read
ReadAfterReset ==
    /\ pc = "read_loss"
    /\ loss_metric' = Empty
    /\ loss_epoch' = Result(Empty)
    /\ train_loss' = Append(train_loss, Result(Empty))
    /\ steps' = steps \o <<"reset_loss", "read_loss">>
    /\ pc' = "save_steps"
    /\ UNCHANGED <<otherVars, calls,
                   args, config, epoch, val_loss, val_acc, wait, n_forget,
                   x_train_, train_ds, val_loss_epoch, val_acc_result,
                   metric, weights, trainable, learning_rate, reduce_rl_plateau,
                   files, writes, last_step>>

\* lines 189-190: loss_epoch = self.loss_metric.result(); train_loss.append
ReadTrainLoss ==
    /\ pc = "read_loss"
    /\ loss_epoch' = Result(loss_metric)
    /\ train_loss' = Append(train_loss, Result(loss_metric))
    /\ steps' = Append(steps, "read_loss")
    /\ pc' = "reset_loss"
    /\ UNCHANGED <<otherVars, calls,
                   args, config, epoch, val_loss, val_acc, wait, n_forget,
                   x_train_, train_ds, val_loss_epoch, val_acc_result, loss_metric,
                   metric, weights, trainable, learning_rate, reduce_rl_plateau,
                   files, writes, last_step>>

\* the training loss left in the accumulator
ResetTrainLossSkipped ==
    /\ pc = "reset_loss"
    /\ loss_metric' = loss_metric
    /\ steps' = Append(steps, "reset_loss")
    /\ pc' = "save_steps"
    /\ UNCHANGED <<otherVars, calls,
                   args, config, epoch, train_loss, val_loss, val_acc, wait,
                   n_forget, x_train_, train_ds, loss_epoch, val_loss_epoch,
                   val_acc_result, metric, weights, trainable, learning_rate,
                   reduce_rl_plateau, files, writes, last_step>>

\* line 191: self.loss_metric.reset_states()
ResetTrainLoss ==
    /\ pc = "reset_loss"
    /\ loss_metric' = Empty
    /\ steps' = Append(steps, "reset_loss")
    /\ pc' = "save_steps"
    /\ UNCHANGED <<otherVars, calls,
                   args, config, epoch, train_loss, val_loss, val_acc, wait,
                   n_forget, x_train_, train_ds, loss_epoch, val_loss_epoch,
                   val_acc_result, metric, weights, trainable, learning_rate,
                   reduce_rl_plateau, files, writes, last_step>>

\* the test one epoch off: (epoch + 1) % save_steps == 0
EvalDueShifted(ep, save_steps) == (ep + 1) % save_steps = 0

\* line 193: if epoch % save_steps == 0
EvalDue(ep, save_steps) == ep % save_steps = 0

\* lines 193-194: the evaluation test, and wait += 1 when it passes
SaveStepsCheck ==
    /\ pc = "save_steps"
    /\ IF EvalDue(epoch, args.save_steps)
       THEN /\ wait' = wait + 1
            /\ pc' = "val_step"
       ELSE /\ pc' = "for"
            /\ UNCHANGED wait
    /\ UNCHANGED <<otherVars, calls,
                   args, config, epoch, train_loss, val_loss, val_acc, n_forget,
                   x_train_, train_ds, loss_epoch, val_loss_epoch, val_acc_result,
                   loss_metric, metric, weights, trainable, learning_rate,
                   reduce_rl_plateau, files, writes, steps, last_step>>

\* line 195: self.val_step(val_ds); l the mean batch loss, m the metric
ValStep(l, m) ==
    /\ pc = "val_step"
    /\ loss_metric' = UpdateState(loss_metric, l)
    /\ metric' = UpdateState(metric, m)
    /\ steps' = Append(steps, "val_step")
    /\ pc' = "read_val"
    /\ UNCHANGED <<otherVars, calls,
                   args, config, epoch, train_loss, val_loss, val_acc, wait,
                   n_forget, x_train_, train_ds, loss_epoch, val_loss_epoch,
                   val_acc_result, weights, trainable, learning_rate,
                   reduce_rl_plateau, files, writes, last_step>>

\* lines 196-197: val_loss_epoch and val_acc_result
ReadVal ==
    /\ pc = "read_val"
    /\ val_loss_epoch' = Result(loss_metric)
    /\ val_acc_result' = Result(metric)
    /\ steps' = Append(steps, "read_val")
    /\ pc' = "reset_val"
    /\ UNCHANGED <<otherVars, calls,
                   args, config, epoch, train_loss, val_loss, val_acc, wait,
                   n_forget, x_train_, train_ds, loss_epoch, loss_metric, metric,
                   weights, trainable, learning_rate, reduce_rl_plateau, files,
                   writes, last_step>>

\* lines 198-199: both accumulators reset
ResetVal ==
    /\ pc = "reset_val"
    /\ loss_metric' = Empty
    /\ metric' = Empty
    /\ steps' = Append(steps, "reset_val")
    /\ pc' = "test_step"
    /\ UNCHANGED <<otherVars, calls,
                   args, config, epoch, train_loss, val_loss, val_acc, wait,
                   n_forget, x_train_, train_ds, loss_epoch, val_loss_epoch,
                   val_acc_result, weights, trainable, learning_rate,
                   reduce_rl_plateau, files, writes, last_step>>

\* line 200: self.val_step(test_ds)
TestStep(l, m) ==
    /\ pc = "test_step"
    /\ loss_metric' = UpdateState(loss_metric, l)
    /\ metric' = UpdateState(metric, m)
    /\ steps' = Append(steps, "test_step")
    /\ pc' = "reset_test"
    /\ UNCHANGED <<otherVars, calls,
                   args, config, epoch, train_loss, val_loss, val_acc, wait,
                   n_forget, x_train_, train_ds, loss_epoch, val_loss_epoch,
                   val_acc_result, weights, trainable, learning_rate,
                   reduce_rl_plateau, files, writes, last_step>>

\* lines 201-204: the test results are read (they are only printed, lines
\* 206-211) and both accumulators reset
ResetTest ==
    /\ pc = "reset_test"
    /\ loss_metric' = Empty
    /\ metric' = Empty
    /\ steps' = Append(steps, "reset_test")
    /\ pc' = "check_best"
    /\ UNCHANGED <<otherVars, calls,
                   args, config, epoch, train_loss, val_loss, val_acc, wait,
                   n_forget, x_train_, train_ds, loss_epoch, val_loss_epoch,
                   val_acc_result, weights, trainable, learning_rate,
                   reduce_rl_plateau, files, writes, last_step>>

\* the comparison made non-strict: a tie overwrites too
IsBestOrTie(function, v, losses) ==
    \/ function = "min" /\ ~Less(Apply(function, losses), v)
    \/ function = "max" /\ ~Less(v, Apply(function, losses))

\* lines 213-214: the new validation loss against function(val_loss)
IsBest(function, v, losses) ==
    \/ function = "min" /\ Less(v, Apply(function, losses))
    \/ function = "max" /\ Less(Apply(function, losses), v)

\* lines 213-216: save_weights(.../best_model) on a new best
CheckBest ==
    /\ pc = "check_best"
    /\ IF IsBest(args.function, val_loss_epoch, val_loss)
       THEN /\ files' = [files EXCEPT !.best_model = <<weights>>]
            /\ writes' = Append(writes, "best_model")
       ELSE UNCHANGED <<files, writes>>
    /\ steps' = Append(steps, "check_best")
    /\ pc' = "reduce_lr"
    /\ UNCHANGED <<otherVars, calls,
                   args, config, epoch, train_loss, val_loss, val_acc, wait,
                   n_forget, x_train_, train_ds, loss_epoch, val_loss_epoch,
                   val_acc_result, loss_metric, metric, weights, trainable,
                   learning_rate, reduce_rl_plateau, last_step>>

\* the validation loss handed over instead of the validation metric
MonitoredLoss(vloss, vacc) == vloss

\* the loop index handed over as the epoch
EpochArgIndex(w, ep) == ep

\* line 219: the epoch handed to the controller, wait
EpochArg(w, ep) == w

\* line 219: the value handed to the controller
Monitored(vloss, vacc) == vacc

\* the controller called at every evaluation, reduce_lr or not
ReduceLRWhenEvaluating ==
    /\ pc = "reduce_lr"
    /\ LET e == EpochArg(wait, epoch)
           v == Monitored(val_loss_epoch, val_acc_result)
           r == OnEpochEnd(reduce_rl_plateau, learning_rate, e, v)
       IN  /\ reduce_rl_plateau' = r.ctrl
           /\ learning_rate' = r.lr
           /\ calls' = Append(calls, [epoch |-> e, value |-> v])
    /\ pc' = "append"
    /\ UNCHANGED <<otherVars,
                   args, config, epoch, train_loss, val_loss, val_acc, wait,
                   n_forget, x_train_, train_ds, loss_epoch, val_loss_epoch,
                   val_acc_result, loss_metric, metric, weights, trainable,
                   files, writes, steps, last_step>>

\* lines 218-219: if reduce_lr: reduce_rl_plateau.on_epoch_end(wait, val_acc_result)
ReduceLR ==
    /\ pc = "reduce_lr"
    /\ IF args.reduce_lr
       THEN LET e == EpochArg(wait, epoch)
                v == Monitored(val_loss_epoch, val_acc_result)
                r == OnEpochEnd(reduce_rl_plateau, learning_rate, e, v)
            IN  /\ reduce_rl_plateau' = r.ctrl
                /\ learning_rate' = r.lr
                /\ calls' = Append(calls, [epoch |-> e, value |-> v])
       ELSE UNCHANGED <<reduce_rl_plateau, learning_rate, calls>>
    /\ pc' = "append"
    /\ UNCHANGED <<otherVars,
                   args, config, epoch, train_loss, val_loss, val_acc, wait,
                   n_forget, x_train_, train_ds, loss_epoch, val_loss_epoch,
                   val_acc_result, loss_metric, metric, weights, trainable,
                   files, writes, steps, last_step>>

\* last_model saved at every evaluation, inside the loop
AppendValAndSaveLast ==
    /\ pc = "append"
    /\ val_loss' = Append(val_loss, val_loss_epoch)
    /\ val_acc' = Append(val_acc, val_acc_result)
    /\ files' = [files EXCEPT !.last_model = <<weights>>]
    /\ writes' = Append(writes, "last_model")
    /\ pc' = "for"
    /\ UNCHANGED <<otherVars, calls,
                   args, config, epoch, train_loss, wait, n_forget,
                   x_train_, train_ds, loss_epoch, val_loss_epoch, val_acc_result,
                   loss_metric, metric, weights, trainable, learning_rate,
                   reduce_rl_plateau, steps, last_step>>

\* lines 221-222: val_loss.append(val_loss_epoch); val_acc.append(val_acc_result)
AppendVal ==
    /\ pc = "append"
    /\ val_loss' = Append(val_loss, val_loss_epoch)
    /\ val_acc' = Append(val_acc, val_acc_result)
    /\ pc' = "for"
    /\ UNCHANGED <<otherVars, calls,
                   args, config, epoch, train_loss, wait, n_forget,
                   x_train_, train_ds, loss_epoch, val_loss_epoch, val_acc_result,
                   loss_metric, metric, weights, trainable, learning_rate,
                   reduce_rl_plateau, files, writes, steps, last_step>>

\* line 224: self.save_weights(.../last_model)
SaveLast ==
    /\ pc = "save_last"
    /\ files' = [files EXCEPT !.last_model = <<weights>>]
    /\ writes' = Append(writes, "last_model")
    /\ pc' = "dump"
    /\ UNCHANGED <<otherVars, calls,
                   args, config, epoch, train_loss, val_loss, val_acc, wait,
                   n_forget, x_train_, train_ds, loss_epoch, val_loss_epoch,
                   val_acc_result, loss_metric, metric, weights, trainable,
                   learning_rate, reduce_rl_plateau, steps, last_step>>

\* lines 227-229: losses = dict(train_loss_results=..., val_loss_results=...)
Losses(tl, vl, va) == [train_loss_results |-> tl, val_loss_results |-> va]

\* lines 230-231: pickle.dump(losses, ...) into history.pickle
DumpHistory ==
    /\ pc = "dump"
    /\ files' = [files EXCEPT !.history = <<Losses(train_loss, val_loss, val_acc)>>]
    /\ writes' = Append(writes, "history.pickle")
    /\ pc' = "done"
    /\ UNCHANGED <<otherVars, calls,
                   args, config, epoch, train_loss, val_loss, val_acc, wait,
                   n_forget, x_train_, train_ds, loss_epoch, val_loss_epoch,
                   val_acc_result, loss_metric, metric, weights, trainable,
                   learning_rate, reduce_rl_plateau, steps, last_step>>

\* a failed write answered by going on as if it had been made
AfterFailureCaught(next) == next

\* an exception raised by save_weights: nothing in fit catches it (no try
\* around lines 216 and 224), so fit ends there
AfterFailure(next) == "raised"

\* line 216 with save_weights raising
SaveBestFails ==
    /\ pc = "check_best"
    /\ IsBest(args.function, val_loss_epoch, val_loss)
    /\ writes' = Append(writes, "best_model failed")
    /\ pc' = AfterFailure("reduce_lr")
    /\ UNCHANGED <<otherVars, calls,
                   args, config, epoch, train_loss, val_loss, val_acc, wait,
                   n_forget, x_train_, train_ds, loss_epoch, val_loss_epoch,
                   val_acc_result, loss_metric, metric, weights, trainable,
                   learning_rate, reduce_rl_plateau, files, steps, last_step>>

\* line 224 with save_weights raising
SaveLastFails ==
    /\ pc = "save_last"
    /\ writes' = Append(writes, "last_model failed")
    /\ pc' = AfterFailure("dump")
    /\ UNCHANGED <<otherVars, calls,
                   args, config, epoch, train_loss, val_loss, val_acc, wait,
                   n_forget, x_train_, train_ds, loss_epoch, val_loss_epoch,
                   val_acc_result, loss_metric, metric, weights, trainable,
                   learning_rate, reduce_rl_plateau, files, steps, last_step>>

\* one step of fit, its passes producing values of TL (training loss), VL
\* (validation and test loss) and VM (validation and test metric)
\* tf.reduce_mean of a list of per-sample losses
Mean(s) == SeqSum(s) \div Len(s)

\* a + lambda_ * b, element by element
RECURSIVE Weighted(_, _, _)
Weighted(a, lambda_, b) ==
    IF a = <<>> THEN <<>>
    ELSE <<Head(a) + lambda_ * Head(b)>> \o Weighted(Tail(a), lambda_, Tail(b))

\* lines 64-65: the cost of a multi-output training batch
TrainCost(o, lambda_) == Mean(o.primary) + lambda_ * Mean(o.aux)

\* lines 104-105 and 116: the loss of a multi-output evaluation batch
ValCost(o, lambda_) == Mean(Weighted(o.primary, lambda_, o.aux))

\* line 95: lambda_ = 1
DefaultLambda == 1

EvalLambdaOfFit(lambda_) == lambda_

\* lines 195 and 200: self.val_step(val_ds), self.val_step(test_ds); fit's
\* lambda_ is not passed on
EvalLambda(lambda_) == DefaultLambda

\* line 78 on the scalar cost of a multi-output batch: the batch is full and
\* samples are to be forgotten
SortsScalar == n_forget # 0 /\ Len(heads.train.primary) > args.batch_size - 1

\* line 188 with config.multioutput
TrainStepMultiOutput ==
    /\ config.multioutput
    /\ ~SortsScalar
    /\ TrainStep(TrainCost(heads.train, args.lambda_))

\* lines 79-80: tf.sort of a scalar raises
TrainStepMultiOutputFails ==
    /\ pc = "train_step"
    /\ config.multioutput
    /\ SortsScalar
    /\ pc' = AfterFailure("read_loss")
    /\ steps' = Append(steps, "train_step")
    /\ UNCHANGED <<otherVars, calls,
                   args, config, epoch, train_loss, val_loss, val_acc, wait,
                   n_forget, x_train_, train_ds, loss_epoch, val_loss_epoch,
                   val_acc_result, loss_metric, metric, weights, trainable,
                   learning_rate, reduce_rl_plateau, files, writes, last_step>>

\* line 195 with config.multioutput
ValStepMultiOutput(m) ==
    /\ config.multioutput
    /\ ValStep(ValCost(heads.val, EvalLambda(args.lambda_)), m)

\* line 200 with config.multioutput
TestStepMultiOutput(m) ==
    /\ config.multioutput
    /\ TestStep(ValCost(heads.test, EvalLambda(args.lambda_)), m)

FitStep(TL, VL, VM) ==
    \/ FitBegin
    \/ ForEpoch
    \/ Shuffle
    \/ PatienceGate
    \/ Batch
    \/ \E v \in TL : TrainStep(v)
    \/ ReadTrainLoss
    \/ ResetTrainLoss
    \/ SaveStepsCheck
    \/ \E l \in VL, m \in VM : ValStep(l, m)
    \/ ReadVal
    \/ ResetVal
    \/ \E l \in VL, m \in VM : TestStep(l, m)
    \/ ResetTest
    \/ CheckBest
    \/ ReduceLR
    \/ AppendVal
    \/ SaveLast
    \/ DumpHistory

(***************************************************************************)
(* The state before a fit call: the model built and prepared, the          *)
(* directory empty.  a: the arguments of the call, c: the configuration.   *)
(***************************************************************************)
\* the defaults of fit's keyword arguments (lines 145-154)
DefaultArgs ==
    [num_epochs |-> 0, save_steps |-> 10, shift_step |-> 0, feat_noise |-> 0,
     sdev_label |-> 0, fillgaps |-> 0, patience |-> 30, reduce_lr |-> FALSE,
     forget |-> 0, function |-> "min", lambda_ |-> 1, batch_size |-> 8]

DefaultConfig == [finetuning |-> FALSE, multibranch |-> FALSE,
                  multioutput |-> FALSE]

NoBatch == [cost |-> <<>>, n_forget |-> 0, size_batch |-> 1, n_branches |-> 1]

\* self.loss on the primary and on the auxiliary output, per sample
NoOutputs == [primary |-> <<>>, aux |-> <<>>]

NoHeads == [train |-> NoOutputs, val |-> NoOutputs, test |-> NoOutputs]

StartOn(a, c, t, b, h) ==
    /\ heads = h
    /\ args = a
    /\ config = c
    /\ pc = "idle"
    /\ epoch = -1
    /\ train_loss = <<>>
    /\ val_loss = <<>>
    /\ val_acc = <<>>
    /\ wait = 0
    /\ n_forget = 0
    /\ x_train_ = RawData
    /\ train_ds = <<>>
    /\ loss_epoch = 0
    /\ val_loss_epoch = 0
    /\ val_acc_result = 0
    /\ loss_metric = Empty
    /\ metric = Empty
    /\ weights = 0
    /\ trainable = t
    /\ learning_rate = InitLR
    /\ reduce_rl_plateau = CustomReduceLRoP(0)
    /\ files = NoFiles
    /\ writes = <<>>
    /\ steps = <<>>
    /\ last_step = NoStep
    /\ calls = <<>>
    /\ run = [n |-> 1, lr0 |-> InitLR, trainable0 |-> t, lr1 |-> InitLR,
              trainable1 |-> t]
    /\ tin = b
    /\ tout = <<>>
    /\ tpc = "idle"
    /\ xin = NoAugmentation
    /\ xout = NoOutput
    /\ apc = "idle"
    /\ prep = NoPrepare

Start(a, c, t, b) == StartOn(a, c, t, b, NoHeads)

\* Checkpointing, evaluation and history: the direction, the number of epochs
\* and save_steps vary, and so do the validation losses.
Init ==
    \E f \in {"min", "max"}, n \in 0..MaxEpochs, s \in 1..MaxSaveSteps :
        Start([DefaultArgs EXCEPT !.function = f, !.num_epochs = n,
                                  !.save_steps = s],
              DefaultConfig, TRUE, NoBatch)

Next == FitStep(TrainLossVals, ValLossVals, {1})

Spec == Init /\ [][Next]_vars

\* The patience gate: patience, forget, the augmentation options and fine-tuning
\* vary.
InitGate ==
    \E p \in 0..MaxPatience, k \in 0..MaxForget, n \in 0..MaxEpochs,
       sh \in 0..1, fn \in 0..1, sd \in 0..1, fg \in 0..1, ft \in BOOLEAN,
       t \in BOOLEAN :
        Start([DefaultArgs EXCEPT !.patience = p, !.forget = k, !.num_epochs = n,
                                  !.save_steps = MaxSaveSteps, !.shift_step = sh,
                                  !.feat_noise = fn, !.sdev_label = sd,
                                  !.fillgaps = fg],
              [DefaultConfig EXCEPT !.finetuning = ft], t, NoBatch)

NextGate == FitStep({1}, {1}, {1})

SpecGate == InitGate /\ [][NextGate]_vars

\* The learning-rate controller: reduce_lr, patience and the monitored metric
\* vary.
InitLR0 ==
    \E p \in (0..MaxPatience) \cup {PatienceDiv * q : q \in 0..MaxPatience},
       n \in 0..MaxEpochs, s \in 1..MaxSaveSteps, r \in BOOLEAN :
        Start([DefaultArgs EXCEPT !.reduce_lr = r, !.patience = p,
                                  !.num_epochs = n, !.save_steps = s],
              DefaultConfig, TRUE, NoBatch)

NextLR == FitStep({1}, {1}, MetricVals)

SpecLR == InitLR0 /\ [][NextLR]_vars

\* train_step on one batch: the losses, the forget count, the batch size and the
\* input configuration vary.
Batches ==
    { [cost |-> c, n_forget |-> k, size_batch |-> sb, n_branches |-> nb] :
        c \in UNION { [1..n -> 1..MaxCost] : n \in 1..MaxN },
        k \in 0..MaxForget + 1, sb \in 1..MaxN, nb \in 1..MaxBranches }

InitStep ==
    \E b \in Batches, mb \in BOOLEAN :
        Start(DefaultArgs, [DefaultConfig EXCEPT !.multibranch = mb], TRUE, b)

NextStep == TrainStepCost

SpecStep == InitStep /\ [][NextStep]_vars

\* Non-finite metrics: reduce_lr is set, every epoch is evaluated, and the
\* monitored metric is finite or not.
InitNF ==
    \E p \in {0, PatienceDiv}, n \in 0..MaxEpochs :
        Start([DefaultArgs EXCEPT !.reduce_lr = TRUE, !.patience = p,
                                  !.num_epochs = n, !.save_steps = 1],
              DefaultConfig, TRUE, NoBatch)

NextNF == FitStep({1}, {1}, {1, 2} \cup NonFiniteVals)

SpecNF == InitNF /\ [][NextNF]_vars

\* after line 231: fit returns, and is then called again on the same model with
\* the same arguments.  What lives on the model stays: the parameters, the
\* optimizer with its learning rate, the layers' trainable flags, the metric
\* objects, the files, and the global val_acc_result (line 156).  The frame of
\* the call is gone: the names the loop binds are unbound again; the names that
\* lines 157-173 bind are bound anew by FitBegin.
Return ==
    /\ pc = "done"
    /\ run.n = 1
    /\ run' = [run EXCEPT !.n = 2, !.lr1 = learning_rate,
                          !.trainable1 = trainable]
    /\ pc' = "idle"
    /\ epoch' = -1
    /\ x_train_' = RawData
    /\ train_ds' = <<>>
    /\ loss_epoch' = 0
    /\ val_loss_epoch' = 0
    /\ steps' = <<>>
    /\ last_step' = NoStep
    /\ calls' = <<>>
    /\ UNCHANGED <<stepVars, augVars, prepVars, heads,
                   args, config, train_loss, val_loss, val_acc, wait, n_forget,
                   val_acc_result, loss_metric, metric, weights, trainable,
                   learning_rate, reduce_rl_plateau, files, writes>>

\* Two fit calls in a row: patience, forget, fine-tuning and the layers' flags
\* vary; every epoch is evaluated and reduce_lr is set.
InitTwo ==
    \E p \in 1..MaxPatience, k \in 0..MaxForget, n \in 0..MaxEpochs,
       ft \in BOOLEAN, t \in BOOLEAN :
        Start([DefaultArgs EXCEPT !.reduce_lr = TRUE, !.patience = p,
                                  !.forget = k, !.num_epochs = n,
                                  !.save_steps = 1],
              [DefaultConfig EXCEPT !.finetuning = ft], t, NoBatch)

NextTwo ==
    \/ FitStep({1}, {1}, {1})
    \/ Return

SpecTwo == InitTwo /\ [][NextTwo]_vars

\* timeshift on one batch: the shape, value, proba and the draws vary.
InitShift == Start(DefaultArgs, DefaultConfig, TRUE, NoBatch)

NextShift ==
    \/ \E n \in 1..MaxSamples, T \in 1..MaxT, C \in ChannelCounts,
          value \in 1..MaxShift, proba \in ProbaVals :
            Timeshift(Batch3(n, T, C), value, proba)
    \/ \E prob \in ProbVals, r \in 1..MaxShift : ShiftSample(prob, r)
    \/ TimeshiftReturn
    \/ ShiftBack

SpecShift == InitShift /\ [][NextShift]_vars

\* feature_noise on one batch: the shape, value, proba and the draws vary.
InitNoise == Start(DefaultArgs, DefaultConfig, TRUE, NoBatch)

NextNoise ==
    \/ \E s \in NoiseShapes, value \in 0..MaxNoise, proba \in ProbaVals :
            FeatureNoise(Batch3(s[1], s[2], s[3]), value, proba)
    \/ \E prob \in ProbVals,
          off \in UNION {[1..C -> NoiseVals] : C \in ChannelCounts} :
            NoiseCell(prob, off)
    \/ FeatureNoiseReturn

SpecNoise == InitNoise /\ [][NextNoise]_vars

\* noisy_label on a few labels: the labels, stdev, proba and the draws vary.
InitLabel == Start(DefaultArgs, DefaultConfig, TRUE, NoBatch)

NextLabel ==
    \/ \E n \in LabelCounts, stdev \in StdevVals, proba \in ProbaVals :
        \E y \in [1..n -> LabelVals] : NoisyLabel(y, stdev, proba)
    \/ \E prob \in ProbVals, noise \in (0 - MaxLabelNoise)..MaxLabelNoise :
            LabelSample(prob, noise)
    \/ NoisyLabelReturn

SpecLabel == InitLabel /\ [][NextLabel]_vars

\* The three augmentation functions, each called on a few inputs: the small
\* batches for timeshift and feature_noise, and labels below, within and above
\* [0, 1] for noisy_label.
InitAug == Start(DefaultArgs, DefaultConfig, TRUE, NoBatch)

NextAug ==
    \/ \E s \in NoiseShapes, value \in {1, 2}, proba \in ProbaVals :
            Timeshift(Batch3(s[1], s[2], s[3]), value, proba)
    \/ \E prob \in ProbVals, r \in {1, 2} : ShiftSample(prob, r)
    \/ TimeshiftReturn
    \/ \E s \in NoiseShapes, proba \in ProbaVals :
            FeatureNoise(Batch3(s[1], s[2], s[3]), 1, proba)
    \/ \E prob \in ProbVals,
          off \in UNION {[1..C -> NoiseVals] : C \in ChannelCounts} :
            NoiseCell(prob, off)
    \/ FeatureNoiseReturn
    \/ \E n \in LabelCounts, stdev \in StdevVals, proba \in ProbaVals :
        \E y \in [1..n -> {0 - 1, 2, One + 1}] : NoisyLabel(y, stdev, proba)
    \/ \E prob \in ProbVals, noise \in (0 - MaxLabelNoise)..MaxLabelNoise :
            LabelSample(prob, noise)
    \/ NoisyLabelReturn

SpecAug == InitAug /\ [][NextAug]_vars

\* prepare: the loss and the metrics passed vary, and compile is of either kind.
InitPrep == Start(DefaultArgs, DefaultConfig, TRUE, NoBatch)

NextPrep ==
    \/ \E loss \in LossArgs, metrics \in MetricArgs :
            Prepare(loss, metrics, FALSE)
    \/ \E loss \in LossArgs : Prepare(loss, <<>>, TRUE)
    \/ ReadDefaults
    \/ LookupLoss
    \/ MetricLoop
    \/ \E eager \in BOOLEAN : Compile(eager)
    \/ Train

SpecPrep == InitPrep /\ [][NextPrep]_vars

\* Failing checkpoint writes: any write of best_model or last_model may fail.
InitFail ==
    \E n \in 0..MaxEpochs, s \in 1..MaxSaveSteps :
        Start([DefaultArgs EXCEPT !.num_epochs = n, !.save_steps = s],
              DefaultConfig, TRUE, NoBatch)

NextFail ==
    \/ FitStep({1}, ValLossVals, {1})
    \/ SaveBestFails
    \/ SaveLastFails

SpecFail == InitFail /\ [][NextFail]_vars

\* NaN validation losses: every epoch is evaluated, and the validation loss of
\* an evaluation is a number or NaN.
InitNaN ==
    \E f \in {"min", "max"}, n \in 0..MaxEpochs :
        Start([DefaultArgs EXCEPT !.function = f, !.num_epochs = n,
                                  !.save_steps = 1],
              DefaultConfig, TRUE, NoBatch)

NextNaN == FitStep({1}, {1, 2, NaN}, {1})

SpecNaN == InitNaN /\ [][NextNaN]_vars

\* Multi-output runs: lambda_, forget, the batch size and the losses of the two
\* outputs on the three datasets vary; every epoch is evaluated.
HeadLosses == {<<0, 2>>, <<1, 3>>}

Outputs == [primary : HeadLosses, aux : HeadLosses]

InitMulti ==
    \E l \in 0..MaxLambda, k \in 0..MaxForget, n \in 0..MaxEpochs, bs \in 2..3,
       tr \in Outputs, va \in Outputs, te \in Outputs :
        StartOn([DefaultArgs EXCEPT !.lambda_ = l, !.forget = k, !.patience = 1,
                                    !.num_epochs = n, !.save_steps = 1,
                                    !.batch_size = bs],
                [DefaultConfig EXCEPT !.multioutput = TRUE], TRUE, NoBatch,
                [train |-> tr, val |-> va, test |-> te])

NextMulti ==
    \/ FitBegin
    \/ ForEpoch
    \/ Shuffle
    \/ PatienceGate
    \/ Batch
    \/ TrainStepMultiOutput
    \/ TrainStepMultiOutputFails
    \/ ReadTrainLoss
    \/ ResetTrainLoss
    \/ SaveStepsCheck
    \/ ValStepMultiOutput(1)
    \/ ReadVal
    \/ ResetVal
    \/ TestStepMultiOutput(1)
    \/ ResetTest
    \/ CheckBest
    \/ ReduceLR
    \/ AppendVal
    \/ SaveLast
    \/ DumpHistory

SpecMulti == InitMulti /\ [][NextMulti]_vars

\* The controller on its own: constructed with a patience and a cooldown, then
\* called once per epoch with the monitored values.
Construct(p, cd) ==
    /\ pc = "idle"
    /\ reduce_rl_plateau' = Constructed(p, cd)
    /\ pc' = "monitor"
    /\ UNCHANGED <<otherVars, calls,
                   args, config, epoch, train_loss, val_loss, val_acc, wait,
                   n_forget, x_train_, train_ds, loss_epoch, val_loss_epoch,
                   val_acc_result, loss_metric, metric, weights, trainable,
                   learning_rate, files, writes, steps, last_step>>

OnEpochEndCall(v) ==
    /\ pc = "monitor"
    /\ Len(calls) < MaxCalls
    /\ LET r == OnEpochEnd(reduce_rl_plateau, learning_rate, Len(calls), v)
       IN  /\ reduce_rl_plateau' = r.ctrl
           /\ learning_rate' = r.lr
    /\ calls' = Append(calls, [epoch |-> Len(calls), value |-> v])
    /\ UNCHANGED <<otherVars,
                   args, config, pc, epoch, train_loss, val_loss, val_acc, wait,
                   n_forget, x_train_, train_ds, loss_epoch, val_loss_epoch,
                   val_acc_result, loss_metric, metric, weights, trainable,
                   files, writes, steps, last_step>>

InitCtrl == Start(DefaultArgs, DefaultConfig, TRUE, NoBatch)

NextCtrl ==
    \/ \E p \in 0..MaxPatience, cd \in 0..MaxCooldown : Construct(p, cd)
    \/ \E v \in MetricVals : OnEpochEndCall(v)

SpecCtrl == InitCtrl /\ [][NextCtrl]_vars

(***************************************************************************)
(* Properties                                                              *)
(***************************************************************************)
Range(s) == {s[i] : i \in 1..Len(s)}

Occurrences(s, e) == Cardinality({i \in 1..Len(s) : s[i] = e})

\* a is strictly better than b in the direction of function
Better(function, a, b) == IF function = "min" THEN a < b ELSE a > b

\* the validation losses recorded at the evaluations made so far
Recorded == Tail(val_loss)

\* the parameters at the i-th evaluation: epoch (i-1)*save_steps, after its pass
WeightsAtEval(i) == (i - 1) * args.save_steps + 1

\* the earliest evaluation whose validation loss no other evaluation's beats
EarliestBest ==
    CHOOSE i \in 1..Len(Recorded) :
        /\ \A j \in 1..Len(Recorded) : ~Better(args.function, Recorded[j], Recorded[i])
        /\ \A j \in 1..(i - 1) : Recorded[j] # Recorded[i]

\* C1: best_model is overwritten at an evaluation if and only if its validation
\* loss is strictly better than every validation loss recorded at the earlier
\* evaluations of the run; at the end of the run best_model holds the parameters
\* of the earliest evaluated epoch that attained the best validation loss.
C1_BestIsEarliestBest ==
    /\ pc = "reduce_lr" =>
          ( files.best_model = <<weights>>
            <=> \A j \in 1..Len(Recorded) :
                    Better(args.function, val_loss_epoch, Recorded[j]) )
    /\ pc = "done" /\ Len(Recorded) > 0 =>
          files.best_model = <<WeightsAtEval(EarliestBest)>>

\* four evaluations with losses 3, 1, 2, 1, direction minimize: the second is kept
C1_Witness ==
    /\ pc = "done"
    /\ args.function = "min"
    /\ val_loss = <<PosInf, 3, 1, 2, 1>>
    /\ files.best_model = <<2>>

\* C2: fit(num_epochs = n) performs exactly n training passes.
C2_ExactlyNumEpochsPasses == pc = "done" => weights = args.num_epochs

\* C3: validation then test evaluation happens in an epoch if and only if the
\* epoch index is a multiple of save_steps, and after the epoch's training pass.
C3_EvaluationEverySaveSteps ==
    /\ ("val_step" \in Range(steps) \/ "test_step" \in Range(steps))
          => epoch % args.save_steps = 0
    /\ pc = "for" /\ epoch >= 0 /\ epoch % args.save_steps = 0
          => Occurrences(steps, "val_step") = 1 /\ Occurrences(steps, "test_step") = 1
    /\ \A i \in 1..Len(steps) :
          /\ steps[i] = "val_step" => \E j \in 1..(i - 1) : steps[j] = "train_step"
          /\ steps[i] = "test_step" => \E j \in 1..(i - 1) : steps[j] = "val_step"

\* epoch 2 of a run with save_steps = 2 has been evaluated, epoch 1 was not
C3_Witness ==
    /\ pc = "for"
    /\ epoch = 2
    /\ args.save_steps = 2
    /\ "test_step" \in Range(steps)
    /\ Len(val_loss) = 3

\* C4: last_model is written exactly once, after the final epoch, whether or not
\* an evaluation improved the best value; the history is written exactly once,
\* after last_model; neither is written while epochs are still running.
C4_LastAndHistoryOnceAtEnd ==
    /\ pc \notin {"dump", "done"} =>
          /\ Occurrences(writes, "last_model") = 0
          /\ Occurrences(writes, "history.pickle") = 0
          /\ files.last_model = <<>> /\ files.history = <<>>
    /\ pc = "dump" =>
          /\ Occurrences(writes, "last_model") = 1
          /\ Occurrences(writes, "history.pickle") = 0
          /\ writes[Len(writes)] = "last_model"
    /\ pc = "done" =>
          /\ Occurrences(writes, "last_model") = 1
          /\ Occurrences(writes, "history.pickle") = 1
          /\ writes[Len(writes) - 1] = "last_model"
          /\ writes[Len(writes)] = "history.pickle"
          /\ epoch = LastEpoch(args.num_epochs)
          /\ files.last_model = <<weights>>
          /\ files.history # <<>>

\* a finished run of four evaluations of which only the first improved
C4_Witness ==
    /\ pc = "done"
    /\ Len(val_loss) = 5
    /\ writes = <<"best_model", "last_model", "history.pickle">>

\* the training losses of the evaluated epochs, in epoch order
EvaluatedTrainLoss ==
    [i \in 1..Len(Recorded) |-> train_loss[(i - 1) * args.save_steps + 2]]

\* the record holds the sequence q as one of its entries (its sentinel apart)
Holds(h, q) == \E k \in DOMAIN h : h[k] = q \/ (h[k] # <<>> /\ Tail(h[k]) = q)

\* C5: the history serialized at the end of fit contains, for each evaluated
\* epoch, its training loss, its validation loss and its validation metric.
C5_HistoryHoldsLossesAndMetric ==
    pc = "done" =>
        /\ Holds(files.history[1], EvaluatedTrainLoss)
        /\ Holds(files.history[1], Recorded)
        /\ Holds(files.history[1], Tail(val_acc))

\* C6: with forget = k > 0 and patience = P > 0 the training step receives the
\* forget count 0 in every epoch below P and k in every epoch from P on, and the
\* count is never reset once raised.
C6_ForgetFromPatienceOn ==
    args.forget > 0 /\ args.patience > 0 =>
        /\ last_step.epoch >= 0 =>
              last_step.n_forget =
                  IF last_step.epoch < args.patience THEN 0 ELSE args.forget
        /\ n_forget \in {0, args.forget}
        /\ epoch > args.patience => n_forget = args.forget
        /\ epoch < args.patience => n_forget = 0

\* the training step of the epoch after the patience epoch got the forget count
C6_Witness ==
    /\ args.forget > 0
    /\ args.patience > 0
    /\ last_step.epoch = args.patience + 1
    /\ last_step.n_forget = args.forget
    /\ train_loss # <<>>

\* the losses of s with its k largest removed, largest first
RECURSIVE WithoutLargest(_, _)
WithoutLargest(s, k) ==
    IF k = 0 \/ s = <<>> THEN SortDescending(s)
    ELSE LET m == SeqMax(s)
             i == CHOOSE j \in 1..Len(s) : s[j] = m
         IN  WithoutLargest(SubSeq(s, 1, i - 1) \o SubSeq(s, i + 1, Len(s)), k - 1)

\* C7: with 0 < k < N and N at least the batch size the mean is over the N - k
\* losses left when the k largest are removed; with k = 0 or N below the batch
\* size it is over all N; in every input configuration.
C7_ForgetDropsKLargest ==
    tpc = "done" =>
        LET N == Len(tin.cost)
            k == tin.n_forget
        IN  /\ (0 < k /\ k < N /\ N >= tin.size_batch) =>
                  /\ Len(tout[1]) = N - k
                  /\ ReduceMean(tout[1]) = ReduceMean(WithoutLargest(tin.cost, k))
            /\ (k = 0 \/ N < tin.size_batch) =>
                  ReduceMean(tout[1]) = ReduceMean(tin.cost)

\* an augmentation option of the call is non-zero
AnyAugmentationOption ==
    \/ args.shift_step # 0
    \/ args.feat_noise # 0
    \/ args.sdev_label # 0
    \/ args.fillgaps # 0

\* C8: no augmentation in an epoch below patience; from patience on (patience
\* > 0), augmentation whenever an augmentation option is non-zero, and the
\* training step consumes the augmented data.
C8_AugmentationFromPatienceOn ==
    last_step.epoch >= 0 =>
        /\ last_step.epoch < args.patience => ~last_step.data.augmented
        /\ (args.patience > 0 /\ last_step.epoch >= args.patience
                /\ AnyAugmentationOption) => last_step.data.augmented

IsPrefixUpTo(s, o) == \A i \in 1..Len(o) : i <= Len(s) => s[i] = o[i]

TrainingEvents ==
    {"augment", "shuffle", "batch", "train_step", "read_loss", "reset_loss"}

\* C9 as stated: augmentation, shuffle, batching, training step, reading the
\* accumulated loss, reset, in this order in every epoch.
C9_AugmentationBeforeShuffle ==
    /\ \A e \in TrainingEvents : Occurrences(steps, e) <= 1
    /\ \/ IsPrefixUpTo(steps, <<"augment", "shuffle", "batch", "train_step",
                                "read_loss", "reset_loss">>)
       \/ IsPrefixUpTo(steps, <<"shuffle", "batch", "train_step", "read_loss",
                                "reset_loss">>)

\* C9, amended: shuffle, augmentation (when it is applied), batching, training
\* step, reading the accumulated loss, reset, in this order in every epoch.
C9_ShuffleBeforeAugmentation ==
    /\ \A e \in TrainingEvents : Occurrences(steps, e) <= 1
    /\ \/ IsPrefixUpTo(steps, <<"shuffle", "augment", "batch", "train_step",
                                "read_loss", "reset_loss">>)
       \/ IsPrefixUpTo(steps, <<"shuffle", "batch", "train_step", "read_loss",
                                "reset_loss">>)
    /\ pc = "save_steps" => loss_epoch = train_loss[Len(train_loss)]
    /\ last_step.epoch >= 0 => last_step.data.shuffled

\* an epoch that augmented has gone through its training part
C9_Witness ==
    /\ pc = "save_steps"
    /\ steps = <<"shuffle", "augment", "batch", "train_step", "read_loss",
                 "reset_loss">>
    /\ last_step.data.augmented

\* the values the controller has been handed so far
Handed == Tail(val_acc) \o (IF pc = "append" THEN <<val_acc_result>> ELSE <<>>)

StrictlyImproving(q) == \A i \in 1..(Len(q) - 1) : q[i + 1] < q[i]

\* C10: while every monitored value fit hands to the controller strictly
\* improves on the best seen so far, the learning rate keeps its initial value.
C10_NoReductionWhileImproving ==
    (pc # "idle" /\ StrictlyImproving(Handed)) => learning_rate = InitLR

\* three evaluations, each improving, the learning rate untouched
C10_Witness ==
    /\ pc = "done"
    /\ args.reduce_lr
    /\ Len(val_acc) >= 4
    /\ StrictlyImproving(Tail(val_acc))
    /\ reduce_rl_plateau.best = val_acc[Len(val_acc)]
    /\ learning_rate = InitLR

\* the reductions a controller of patience p makes on the values q: one at each
\* call where the count of calls without improvement reaches p
RECURSIVE Reductions(_, _, _, _)
Reductions(q, p, best, stalled) ==
    IF q = <<>> THEN 0
    ELSE IF Head(q) < best THEN Reductions(Tail(q), p, Head(q), 0)
    ELSE IF stalled + 1 >= p THEN 1 + Reductions(Tail(q), p, best, 0)
    ELSE Reductions(Tail(q), p, best, stalled + 1)

RECURSIVE ReducedTimes(_, _)
ReducedTimes(lr, n) ==
    IF n = 0 THEN lr ELSE ReducedTimes((lr * FactorNum) \div FactorDen, n - 1)

\* C11: the learning rate is reduced exactly once per patience-length stall, at
\* the call where the count of calls without improvement reaches the
\* controller's patience (fit's patience // 4) and not before; with patience 2
\* and the values 1, 1, 1 it is 1000 until the third value and 500 from then on.
C11_OneReductionPerStall ==
    (args.reduce_lr /\ pc # "idle" /\ args.patience \div PatienceDiv >= 1) =>
        learning_rate =
            ReducedTimes(InitLR, Reductions(Handed, args.patience \div PatienceDiv,
                                            PosInf, 0))

\* controller patience 2, the metric 1 at three evaluations: reduced at the third
C11_Witness ==
    /\ args.reduce_lr
    /\ args.patience = 2 * PatienceDiv
    /\ pc = "append"
    /\ Handed = <<1, 1, 1>>
    /\ learning_rate = 500

\* C12: a reduction resets the no-improvement counter and enters COOLDOWN for
\* cooldown epochs; a call made in COOLDOWN never reduces the learning rate,
\* whatever value arrives, and uses up one cooldown epoch, so that after
\* cooldown calls the controller is back in MONITORING.
CallsSince(c) == c.cooldown - c.cooldown_counter

C12_CooldownSuppressesReduction ==
    [][/\ learning_rate' # learning_rate =>
            /\ ~InCooldown(reduce_rl_plateau)
            /\ reduce_rl_plateau'.wait = 0
            /\ reduce_rl_plateau'.cooldown_counter = reduce_rl_plateau.cooldown
       /\ (InCooldown(reduce_rl_plateau) /\ calls' # calls) =>
            /\ learning_rate' = learning_rate
            /\ CallsSince(reduce_rl_plateau') = CallsSince(reduce_rl_plateau) + 1]_vars

\* a stall under patience 1 and cooldown 2: reduced at the second call, the two
\* calls after it in COOLDOWN, and MONITORING again after them
C12_Witness ==
    /\ pc = "monitor"
    /\ reduce_rl_plateau.patience = 1
    /\ reduce_rl_plateau.cooldown = 2
    /\ [i \in 1..Len(calls) |-> calls[i].value] = <<1, 1, 1, 1>>
    /\ learning_rate = Reduced(InitLR)
    /\ ~InCooldown(reduce_rl_plateau)

C14_InvokedEveryEpochWithIndex ==
    (args.reduce_lr /\ pc = "for" /\ epoch >= 0) =>
        /\ Len(calls) = epoch + 1
        /\ calls[Len(calls)].epoch = epoch
        /\ calls[Len(calls)].value = val_acc_result

\* the epochs up to ep in which fit evaluates
Evaluated(ep, save_steps) == {e \in 0..ep : e % save_steps = 0}

\* C14: with reduce_lr set the controller is called once in every evaluated
\* epoch and in no other; the epoch it receives is the number of evaluations
\* made so far, 1 in epoch 0, and the value is the metric of that evaluation.
C14_InvokedEveryEvaluationWithWait ==
    (args.reduce_lr /\ pc = "for" /\ epoch >= 0) =>
        /\ Len(calls) = Cardinality(Evaluated(epoch, args.save_steps))
        /\ \A i \in 1..Len(calls) :
            /\ calls[i].epoch = i
            /\ calls[i].value = Tail(val_acc)[i]

\* four epochs evaluated every second one: two calls, numbered 1 and 2
C14_Witness ==
    /\ args.reduce_lr
    /\ args.save_steps = 2
    /\ pc = "for"
    /\ epoch = 3
    /\ Len(calls) = 2
    /\ calls[2].epoch = 2
    /\ calls[1].value # calls[2].value

\* C15: the learning rate is written only by the controller's call between the
\* evaluation and the next epoch, in a run with reduce_lr set: it changes in no
\* other step of fit, neither in a training pass nor in an evaluation pass, and
\* with reduce_lr unset it is at every point of the run what it was at the start.
C15_OnlyControllerWritesLR ==
    [][/\ learning_rate' # learning_rate =>
            /\ pc = "reduce_lr"
            /\ args.reduce_lr
            /\ Len(calls') = Len(calls) + 1
       /\ ~args.reduce_lr => learning_rate' = run.lr0]_vars

\* a reduction made by the controller, after the passes of two epochs
C15_Witness ==
    /\ args.reduce_lr
    /\ pc = "append"
    /\ epoch = 1
    /\ weights = 2
    /\ learning_rate = Reduced(run.lr0)

\* the second call about to enter its loop
SecondStart == run.n = 2 /\ pc = "for" /\ epoch = -1

\* what lines 157-173 bind, as a first call binds it
FreshLocals ==
    /\ train_loss = Sentinel(args.function)
    /\ val_loss = Sentinel(args.function)
    /\ val_acc = Sentinel(args.function)
    /\ wait = 0
    /\ n_forget = 0
    /\ reduce_rl_plateau = CustomReduceLRoP(ControllerPatience(args.patience))

\* C16 as claimed: the second of two fit calls starts with the epoch index,
\* the best-so-far values, the counters, the forget count, the learning rate
\* and the layers' trainable flags the first call started with.
C16_NothingSurvivesFit ==
    SecondStart =>
        /\ FreshLocals
        /\ learning_rate = run.lr0
        /\ trainable = run.trainable0

\* C16: the second call starts with the epoch index, the best-so-far values,
\* the counters and the forget count of a first call, and with the learning
\* rate and the trainable flags the first call ended with.
C16_OnlyModelStateSurvivesFit ==
    SecondStart =>
        /\ FreshLocals
        /\ learning_rate = run.lr1
        /\ trainable = run.trainable1

\* a first call that reduced the rate, unfroze the layers and forgot samples
C16_Witness ==
    /\ SecondStart
    /\ run.lr1 < run.lr0
    /\ run.trainable1 /\ ~run.trainable0
    /\ args.forget > 0
    /\ args.num_epochs >= args.patience

\* C17: with fine-tuning enabled and patience P > 0, the training step of an
\* epoch before P runs with the layers below the output block frozen, and the
\* training step of epoch P and of every later epoch with all layers trainable.
C17_FrozenUntilPatience ==
    (last_step.epoch >= 0 /\ config.finetuning /\ args.patience > 0) =>
        (last_step.trainable <=> last_step.epoch >= args.patience)

\* C18: a batch shifted by timeshift and then shifted back, every sample by the
\* negated entry of the shift list, is the batch that was passed in, on every
\* channel.
C18_ShiftThenBackIsIdentity == apc = "restored" => xout.x = xin.x

\* two samples of three time steps and two channels, shifted by -1 and by 2
C18_Witness ==
    /\ apc = "restored"
    /\ Shape(xin.x) = <<2, 3, 2>>
    /\ xout.shift_list = <<0 - 1, 2>>

\* the sample shifted circularly by s along the time axis, on every channel
IsShiftOf(out, in, s) ==
    \A t \in 1..Len(in), c \in 1..Len(in[1]) :
        out[((t - 1 + s) % Len(in)) + 1][c] = in[t][c]

Abs(s) == IF s < 0 THEN 0 - s ELSE s

\* C19: timeshift returns a batch and a list with one entry per sample; every
\* returned sample is the input sample shifted circularly by its entry; the
\* entry is 0 and the sample untouched when the draw was not below proba, a
\* draw equal to proba included, and between 1 and value in absolute value
\* when it was.
C19_TimeshiftContract ==
    apc = "shifted" =>
        /\ Len(xout.x) = Len(xin.x)
        /\ Len(xout.shift_list) = Len(xin.x)
        /\ \A i \in 1..Len(xin.x) :
            /\ IsShiftOf(xout.x[i], xin.x[i], xout.shift_list[i])
            /\ xout.draws[i] >= xin.proba =>
                    (xout.shift_list[i] = 0 /\ xout.x[i] = xin.x[i])
            /\ xout.draws[i] < xin.proba =>
                    (1 <= Abs(xout.shift_list[i]) /\
                     Abs(xout.shift_list[i]) <= xin.value)

\* a draw equal to proba next to a selecting one
C19_Witness ==
    /\ apc = "shifted"
    /\ Shape(xin.x) = <<2, 3, 2>>
    /\ xin.proba = 2
    /\ xout.draws = <<2, 1>>
    /\ xout.shift_list = <<0, 2>>
    /\ xout.x[2] # xin.x[2]

\* what feature_noise added at (i, j), channel by channel
Offset(i, j) == [c \in 1..Len(xin.x[i][j]) |-> xout.x[i][j][c] - xin.x[i][j][c]]

\* C20: feature_noise returns a batch and a mask of zeros and ones over the
\* (sample, timestep) pairs; the mask is 1 exactly at the pairs that were
\* perturbed; where it is 0 every channel is as passed in, and where it is 1
\* the offsets of all channels lie in [-value, 0] or all lie in [0, value].
C20_FeatureNoiseContract ==
    apc = "noised" =>
        \A i \in 1..Len(xin.x), j \in 1..Len(xin.x[1]) :
            /\ xout.mask[i][j] \in {0, 1}
            /\ xout.mask[i][j] = 1 <=> <<i, j>> \in xout.perturbed
            /\ xout.mask[i][j] = 0 => xout.x[i][j] = xin.x[i][j]
            /\ xout.mask[i][j] = 1 =>
                \/ \A c \in DOMAIN Offset(i, j) :
                        0 - xin.value <= Offset(i, j)[c] /\ Offset(i, j)[c] <= 0
                \/ \A c \in DOMAIN Offset(i, j) :
                        0 <= Offset(i, j)[c] /\ Offset(i, j)[c] <= xin.value

\* one sample of two time steps and two channels: the first step moved down by
\* different amounts, the second left alone
C20_Witness ==
    /\ apc = "noised"
    /\ Shape(xin.x) = <<1, 2, 2>>
    /\ xin.value = 2
    /\ xout.mask = <<<<1, 0>>>>
    /\ Offset(1, 1) = <<0 - 1, 0 - 2>>

\* C21: every label noisy_label returns lies in [0, 1], whatever the label
\* passed in and whatever was drawn; a label passed in within [0, 1] whose
\* noise term is zero, stdev being 0 or the label not being selected, is
\* returned as it was.
C21_LabelsClampedAndKept ==
    apc = "labelled" =>
        \A i \in 1..Len(xin.x) :
            /\ 0 <= xout.x[i][1] /\ xout.x[i][1] <= One
            /\ (/\ 0 <= xin.x[i] /\ xin.x[i] <= One
                /\ (xin.value = 0 \/ xout.draws[i] >= xin.proba)) =>
                    xout.x[i][1] = xin.x[i]

\* the label 0.5 selected with stdev 0, next to a label below 0 not selected
C21_Witness ==
    /\ apc = "labelled"
    /\ xin.x = <<2, 0 - 1>>
    /\ xin.value = 0
    /\ xin.proba = 2
    /\ xout.draws = <<1, 3>>
    /\ xout.x = <<<<2>>, <<0>>>>

\* a call of timeshift, feature_noise or noisy_label has returned
Returned == apc \in {"shifted", "noised", "labelled"}

\* C22: when timeshift, feature_noise or noisy_label has returned, the array
\* the caller passed in holds what it held when it was passed, in the same
\* shape, and the array returned is another object.
C22_InputNotMutated ==
    Returned => (xin.x = xin.given /\ xout.obj # xin.obj)

\* noisy_label having changed both labels in what it returns
C22_Witness ==
    /\ apc = "labelled"
    /\ Len(xin.given) = 2
    /\ \A i \in 1..2 : xout.x[i][1] # xin.given[i]

\* the loss passed is no loss key; a metric passed is no metric key
UnknownLoss ==
    prep.given.loss # None /\ prep.given.loss \notin DOMAIN regression_losses

UnknownMetric ==
    /\ ~prep.given.none
    /\ \E i \in DOMAIN prep.given.metrics :
            prep.given.metrics[i] \notin DOMAIN regression_metrics

FailedWrites == {"best_model failed", "last_model failed"}

HasFailed == \E i \in DOMAIN writes : writes[i] \in FailedWrites

\* C24: once a write of best_model or last_model has failed, fit has ended at
\* that write: the failed attempt is the last write attempted, no history has
\* been written, and from then on no write is attempted again, no epoch is
\* entered, no pass is made and no file changes.
C24_FailedWriteHaltsRun ==
    [][HasFailed =>
            /\ pc = "raised"
            /\ writes[Len(writes)] \in FailedWrites
            /\ files.history = <<>>
            /\ pc' = pc
            /\ writes' = writes
            /\ files' = files
            /\ epoch' = epoch
            /\ weights' = weights]_vars

\* the second evaluation's write failing after the first one's was made, with
\* epochs still to run
C24_Witness ==
    /\ pc = "raised"
    /\ writes = <<"best_model", "best_model failed">>
    /\ epoch < args.num_epochs
    /\ files.last_model = <<>>

\* C25: the loss accumulator is empty when a training pass, a validation pass
\* or a test pass starts, and the metric accumulator is empty when a
\* validation pass or a test pass starts; what is read after a pass holds the
\* batches of that pass and no other.
C25_AccumulatorsEmptyAtPassStart ==
    /\ pc = "train_step" => loss_metric = Empty
    /\ pc \in {"val_step", "test_step"} =>
            (loss_metric = Empty /\ metric = Empty)
    /\ pc = "read_loss" => loss_metric.count = 1
    /\ pc \in {"read_val", "reset_test"} =>
            (loss_metric.count = 1 /\ metric.count = 1)

\* the test pass of the second evaluation about to start
C25_Witness ==
    /\ pc = "test_step"
    /\ epoch >= 1
    /\ Len(Tail(val_loss)) >= 1
    /\ val_loss_epoch > 1
    /\ loss_metric = Empty
    /\ metric = Empty

\* the validation loss of this evaluation or of an earlier one is NaN
NaNSeen ==
    \/ pc \in {"check_best", "reduce_lr", "append"} /\ val_loss_epoch = NaN
    \/ \E i \in 1..Len(val_loss) : val_loss[i] = NaN

\* C26: the evaluation whose validation loss is NaN does not write best_model
\* and fit goes on after it; no evaluation after it writes best_model either,
\* whatever its validation loss.
C26_NaNFreezesBestModel ==
    [][NaNSeen =>
            /\ files'.best_model = files.best_model
            /\ writes' # Append(writes, "best_model")
            /\ pc = "check_best" => pc' = "reduce_lr"]_vars

\* a loss of 1 after 2 and NaN, with best_model still that of the first
\* evaluation
C26_Witness ==
    /\ args.function = "min"
    /\ pc = "for"
    /\ val_loss = <<PosInf, 2, NaN, 1>>
    /\ files.best_model = <<1>>

\* C27: with patience = 0 no step of fit unfreezes the layers, raises the forget
\* count above 0 or augments the training data, and every training step runs
\* with the forget count 0 on data that was not augmented, whatever forget, the
\* augmentation options and fine-tuning are.
C27_PatienceZeroNeverOpens ==
    [][args.patience = 0 =>
            /\ trainable' = trainable
            /\ n_forget' = 0
            /\ ~x_train_'.augmented
            /\ last_step'.epoch >= 0 =>
                  /\ last_step'.n_forget = 0
                  /\ ~last_step'.data.augmented
                  /\ last_step'.trainable = trainable]_vars

\* a run of two epochs or more with patience 0 and forget, augmentation and
\* fine-tuning all configured on a model whose layers are frozen
C27_Witness ==
    /\ pc = "done"
    /\ args.patience = 0
    /\ args.forget > 0
    /\ AugmentationOn(args)
    /\ config.finetuning
    /\ last_step.epoch >= 1
    /\ ~last_step.trainable

\* C28: with feat_noise non-zero and shift_step, sdev_label and fillgaps zero,
\* no epoch augments: every training step receives the shuffled training data,
\* not augmented.
C28_FeatNoiseAloneNeverAugments ==
    (args.feat_noise # 0 /\ args.shift_step = 0 /\ args.sdev_label = 0
        /\ args.fillgaps = 0) =>
        /\ ~x_train_.augmented
        /\ Occurrences(steps, "augment") = 0
        /\ last_step.epoch >= 0 =>
              last_step.data.shuffled /\ ~last_step.data.augmented

\* the training step of an epoch past patience, with feat_noise alone
C28_Witness ==
    /\ args.feat_noise # 0
    /\ args.shift_step = 0 /\ args.sdev_label = 0 /\ args.fillgaps = 0
    /\ args.patience > 0
    /\ last_step.epoch > args.patience
    /\ pc = "read_loss"

\* C29: in a multi-output run every training loss is mean(primary) + lambda_ *
\* mean(auxiliary) with fit's lambda_, and every validation loss and test loss
\* is that of the auxiliary weight 1, whatever lambda_ is.
C29_LambdaInTrainingOnly ==
    config.multioutput =>
        /\ \A i \in 2..Len(train_loss) :
              train_loss[i] = Mean(heads.train.primary)
                                  + args.lambda_ * Mean(heads.train.aux)
        /\ pc = "read_loss" =>
              Result(loss_metric) = Mean(heads.train.primary)
                                        + args.lambda_ * Mean(heads.train.aux)
        /\ \A i \in 2..Len(val_loss) :
              val_loss[i] = Mean(heads.val.primary) + Mean(heads.val.aux)
        /\ pc = "read_val" =>
              Result(loss_metric) = Mean(heads.val.primary) + Mean(heads.val.aux)
        /\ pc = "reset_test" =>
              Result(loss_metric) = Mean(heads.test.primary) + Mean(heads.test.aux)

\* a run with lambda_ = 2 whose training loss is 5 and validation loss 3
C29_Witness ==
    /\ config.multioutput
    /\ args.lambda_ = 2
    /\ pc = "done"
    /\ train_loss = <<PosInf, 5, 5>>
    /\ val_loss = <<PosInf, 3, 3>>
    /\ heads.train = [primary |-> <<0, 2>>, aux |-> <<1, 3>>]
    /\ heads.val = heads.train

====
